---------------------------- MODULE Spec2Model ----------------------------
(***************************************************************************)
(* A model of roll.py, the roll-and-keep dice roller: the input parser and *)
(* pool normalisation (parse_input, cap), the single-die simulator (roll), *)
(* the per-die distributions (F, standard, mastery, emphasis), the         *)
(* rank-constrained recursion P with the distribution API (throw_v,        *)
(* throw_v_or_up) and the threshold table (show_prob).                     *)
(*                                                                         *)
(* Probabilities are Python floats in the source.  Every probability the   *)
(* program computes is a finite decimal fraction (a sum of products of     *)
(* 1/10), so the model computes them exactly, as decimal fractions         *)
(* num / 10^exp; binary rounding of the floats is not modelled.  A Python  *)
(* exception is a value whose exc field names it, and every arithmetic     *)
(* operator hands on the exception of its first raising operand, which is  *)
(* the order in which Python evaluates the operands.                       *)
(***************************************************************************)
EXTENDS Integers, Sequences, FiniteSets, TLC

VARIABLES
    pc,        \* position of the component under study
    hist,      \* SpecCap: the (r, k, add) triples, each the cap of the one before
    line,      \* SpecParse, SpecProb: the input line, as the groups of the regex
    opts,      \* SpecParse, SpecProb: what parse_input returned
    min_TN,    \* SpecProb: show_prob's threshold being probed
    TNs,       \* SpecProb: show_prob's tabulated thresholds
    args,      \* SpecThrow: the (r, k, mods) of the calls of the distribution API
    tv,        \* SpecThrow: the value v asked about
    exact,     \* SpecThrow: throw_v(r, k, tv, mods)
    atleast,   \* SpecThrow: throw_v_or_up(r, k, tv, mods)
    prev,      \* SpecThrow: throw_v_or_up(r, k, tv - 1, mods)
    die,       \* SpecDie: the (mods, n) asked of the per-die distribution
    dn         \* SpecDie: the analytic probability of n for mods

vars == <<pc, hist, line, opts, min_TN, TNs, args, tv, exact, atleast, prev, die, dn>>

----------------------------------------------------------------------------
(* Bounds of the model. *)

\* SpecThrow: the largest number of rolled dice.
MaxR == 3
\* SpecThrow: the largest value v asked about (11 is the first exploded total).
MaxV == 11

----------------------------------------------------------------------------
(* Exact decimal arithmetic, with Python's exceptions. *)

RECURSIVE Norm(_, _)
\* The decimal num / 10^exp in lowest terms.
Norm(num, exp) ==
    IF exp > 0 /\ num % 10 = 0
    THEN Norm(num \div 10, exp - 1)
    ELSE [exc |-> "", num |-> num, exp |-> exp]

Raise(name) == [exc |-> name, num |-> 0, exp |-> 0]
Int2Dec(i) == Norm(i, 0)
Zero == Int2Dec(0)
One == Int2Dec(1)
Tenth == Norm(1, 1)
Raised(a) == a.exc # ""

MaxOf(i, j) == IF i >= j THEN i ELSE j
Range(s) == {s[i] : i \in DOMAIN s}
\* The numerator of a over the denominator 10^e (e >= a.exp).
Scaled(a, e) == a.num * 10^(e - a.exp)

Add(a, b) ==
    IF Raised(a) THEN a ELSE IF Raised(b) THEN b
    ELSE LET e == MaxOf(a.exp, b.exp) IN Norm(Scaled(a, e) + Scaled(b, e), e)

Sub(a, b) ==
    IF Raised(a) THEN a ELSE IF Raised(b) THEN b
    ELSE LET e == MaxOf(a.exp, b.exp) IN Norm(Scaled(a, e) - Scaled(b, e), e)

Mul(a, b) ==
    IF Raised(a) THEN a ELSE IF Raised(b) THEN b
    ELSE IF a.num = 0 \/ b.num = 0 THEN Zero
    ELSE Norm(a.num * b.num, a.exp + b.exp)

RECURSIVE Pow(_, _)
\* a ** n for n >= 0.
Pow(a, n) == IF n = 0 THEN One ELSE Mul(a, Pow(a, n - 1))

\* a > b and a <= b, for two values that are not exceptions.
Gt(a, b) == LET e == MaxOf(a.exp, b.exp) IN Scaled(a, e) > Scaled(b, e)
Le(a, b) == ~Gt(a, b)

----------------------------------------------------------------------------
(* Calculating probabilities. *)

RECURSIVE factorial(_)
\* math.factorial: a ValueError for a negative argument, here Raise in C.
factorial(n) == IF n <= 1 THEN 1 ELSE n * factorial(n - 1)

\* The number of combinations of n objects taken r at a time.  A negative
\* argument of factorial raises ValueError.
C(n, r) ==
    IF n < 0 \/ r < 0 \/ n - r < 0
    THEN Raise("ValueError")
    ELSE Int2Dec(factorial(n) \div (factorial(r) * factorial(n - r)))

\* The chance of getting n on a single die.
F(n) == IF n < 1 \/ n > 10 THEN Zero ELSE Tenth

RECURSIVE standard(_)
\* standard with the test "n <= 10": a 10 that ends the roll.
standard_keeps_ten(n) == IF n <= 10 THEN F(n) ELSE Mul(F(10), standard(n - 10))

\* The chance of getting n on a standard roll (a 10 explodes).
standard(n) == IF n < 10 THEN F(n) ELSE Mul(F(10), standard(n - 10))

RECURSIVE mastery(_)
\* The chance of getting n on a roll with mastery (9 and 10 explode).
mastery(n) ==
    IF n < 9 THEN F(n)
    ELSE Add(Mul(F(9), mastery(n - 9)), Mul(F(10), mastery(n - 10)))

\* A per-die distribution is named by a tuple: the function, and for
\* partial(emphasis, D=...) the function it wraps.
RECURSIVE Call(_, _)
\* The chance of getting n on a roll of kind D with emphasis.
emphasis(n, D) ==
    IF n = 1 THEN Mul(F(1), F(1))
    ELSE Add(Call(D, n), Mul(F(1), Call(D, n)))

\* D(n), for a per-die distribution D.
Call(D, n) ==
    CASE D = <<"standard">> -> standard(n)
      [] D = <<"F">> -> F(n)
      [] D = <<"mastery">> -> mastery(n)
      [] D[1] = "emphasis" -> emphasis(n, Tail(D))

RECURSIVE P(_, _, _, _, _)
RECURSIVE PFewer(_, _, _, _, _, _, _)
RECURSIVE PAllKept(_, _, _, _, _, _)
RECURSIVE SumD(_, _, _)

\* for n in range(n, k + 1): acc += C(r, n) * D(t) ** n * P(r-n, k-n, v-n*t, t-1, D)
\* An exception ends the loop.
PFewer(r, k, v, t, D, n, acc) ==
    IF n > k THEN acc
    ELSE LET more == Add(acc, Mul(Mul(C(r, n), Pow(Call(D, t), n)),
                                  P(r - n, k - n, v - n * t, t - 1, D)))
         IN  IF Raised(more) THEN more ELSE PFewer(r, k, v, t, D, n + 1, more)

\* sum(D(i) for i in range(i, t)), added by halves of the range.
SumD(D, i, t) ==
    IF i >= t THEN Zero
    ELSE IF i + 1 = t THEN Call(D, i)
    ELSE LET mid == (i + t) \div 2 IN Add(SumD(D, i, mid), SumD(D, mid, t))

\* for n in range(n, r + 1): acc += C(r, n) * D(t) ** n * lt_t ** (r - n)
PAllKept(r, t, D, lt_t, n, acc) ==
    IF n > r THEN acc
    ELSE LET more == Add(acc, Mul(Mul(C(r, n), Pow(Call(D, t), n)), Pow(lt_t, r - n)))
         IN  IF Raised(more) THEN more ELSE PAllKept(r, t, D, lt_t, n + 1, more)

\* P with the last loop starting one late, at range(k + 1, r + 1): the throws
\* with exactly k rolls of t are left out.
P_skips_exactly_k(r, k, v, t, D) ==
    IF r < 1 \/ k < 1 \/ v < 1 \/ t < 1 THEN Call(D, 0)
    ELSE LET below == P(r, k, v, t - 1, D)
             acc == IF Raised(below) THEN below ELSE PFewer(r, k, v, t, D, 1, below)
         IN  IF k * t # v \/ Raised(acc) THEN acc
             ELSE PAllKept(r, t, D, SumD(D, 0, t), k + 1, acc)

\* Given roll r, keep k: the chance that the result of the throw is v and
\* that all rolls are t or less, for the per-die distribution D.
P(r, k, v, t, D) ==
    IF r < 1 \/ k < 1 \/ v < 1 \/ t < 1 THEN Call(D, 0)
    ELSE LET below == P(r, k, v, t - 1, D)
             acc == IF Raised(below) THEN below ELSE PFewer(r, k, v, t, D, 1, below)
         IN  IF k * t # v \/ Raised(acc) THEN acc
             ELSE PAllKept(r, t, D, SumD(D, 0, t), k, acc)

\* The dict of throw_v: the rule variant (a string, here the sequence of its
\* characters) to the per-die distribution.
pdf ==
    (<<>> :> <<"standard">>)
    @@ (<<"u">> :> <<"F">>)
    @@ (<<"m">> :> <<"mastery">>)
    @@ (<<"e">> :> <<"emphasis", "standard">>)
    @@ (<<"e", "m">> :> <<"emphasis", "mastery">>)

\* The probability of getting exactly v for roll r, keep k.  pdf[mods] raises
\* KeyError for a mods that is no key.
throw_v(r, k, v, mods) ==
    IF mods \notin DOMAIN pdf THEN Raise("KeyError")
    ELSE P(r, k, v, v, pdf[mods])

RECURSIVE SumThrowV(_, _, _, _, _)
\* sum(throw_v(r, k, i, mods) for i in range(i, v)), added by halves of the
\* range; the first exception in the order of i is the result.
SumThrowV(r, k, i, v, mods) ==
    IF i >= v THEN Zero
    ELSE IF i + 1 = v THEN throw_v(r, k, i, mods)
    ELSE LET mid == (i + v) \div 2
         IN  Add(SumThrowV(r, k, i, mid, mods), SumThrowV(r, k, mid, v, mods))

\* throw_v_or_up without its "1 -": the probability of getting less than v.
throw_v_or_up_below(r, k, v, mods) == SumThrowV(r, k, 1, v, mods)

\* The probability of getting v or higher for roll r, keep k.
throw_v_or_up(r, k, v, mods) == Sub(One, SumThrowV(r, k, 1, v, mods))

----------------------------------------------------------------------------
(* Dice rolling. *)

\* random.randint(1, 10): the faces of a die, each with chance 1/10.
d10 == 1..10

RECURSIVE SumSeq(_)
SumSeq(s) == IF s = <<>> THEN 0 ELSE Head(s) + SumSeq(Tail(s))

RECURSIVE MeanFrom(_, _, _)
\* The sum of chance[face] / 10 over the faces from face to last, added by
\* halves of the range.
MeanFrom(chance, face, last) ==
    IF face = last THEN Mul(Tenth, chance[face])
    ELSE LET mid == (face + last) \div 2
         IN  Add(MeanFrom(chance, face, mid), MeanFrom(chance, mid + 1, last))

\* The chance of an outcome whose chance is chance[face] after d10() gave face.
OverD10(chance) == MeanFrom(chance, 1, 10)

RECURSIVE roll_explode(_, _, _)
\* while dice[-1] >= explode: dice.append(d10()), then result = sum(dice): the
\* chance that the result is n.  The sum only grows, so a sum above n is
\* never the result n.
roll_explode(explode, dice, n) ==
    IF SumSeq(dice) > n THEN Zero
    ELSE IF dice[Len(dice)] >= explode
    THEN OverD10([face \in d10 |-> roll_explode(explode, Append(dice, face), n)])
    ELSE IF SumSeq(dice) = n THEN One ELSE Zero

\* The chance that roll(mods) returns the result n.
roll(mods, n) ==
    LET expertise == "e" \in Range(mods)
        explode == IF "m" \in Range(mods) THEN 9
                   ELSE IF "u" \in Range(mods) THEN 11 ELSE 10
    IN  OverD10([first \in d10 |->
            IF expertise /\ first = 1
            THEN OverD10([again \in d10 |-> roll_explode(explode, <<again>>, n)])
            ELSE roll_explode(explode, <<first>>, n)])

----------------------------------------------------------------------------
(* Parsing and pool normalisation. *)

RECURSIVE cap_convert(_, _)
\* Every two rolled dice converted to one kept die, in place of every one.
cap_convert_one_for_one(r, k) ==
    IF r > 11 /\ k < 10 THEN cap_convert(r - 1, k + 1) ELSE <<r, k>>

\* while r > 11 and k < 10: r -= 2; k += 1
cap_convert(r, k) ==
    IF r > 11 /\ k < 10 THEN cap_convert(r - 2, k + 1) ELSE <<r, k>>

\* cap without its "r = 10": the rolled dice above 10 give their bonus and stay.
cap_keeps_rolled(r, k, add) ==
    LET rk == cap_convert(r, k)
        add1 == IF rk[1] > 10 THEN add + 2 * (rk[1] - 10) ELSE add
        add2 == IF rk[2] > 10 THEN add1 + 2 * (rk[2] - 10) ELSE add1
        k2 == IF rk[2] > 10 THEN 10 ELSE rk[2]
    IN  <<rk[1], k2, add2>>

\* Convert excessively large numbers of thrown dice to flat bonuses.
cap(r, k, add) ==
    LET rk == cap_convert(r, k)
        add1 == IF rk[1] > 10 THEN add + 2 * (rk[1] - 10) ELSE add
        r2 == IF rk[1] > 10 THEN 10 ELSE rk[1]
        add2 == IF rk[2] > 10 THEN add1 + 2 * (rk[2] - 10) ELSE add1
        k2 == IF rk[2] > 10 THEN 10 ELSE rk[2]
    IN  <<r2, k2, add2>>

\* A string is the sequence of its characters.
DigitValue ==
    ("0" :> 0) @@ ("1" :> 1) @@ ("2" :> 2) @@ ("3" :> 3) @@ ("4" :> 4)
    @@ ("5" :> 5) @@ ("6" :> 6) @@ ("7" :> 7) @@ ("8" :> 8) @@ ("9" :> 9)

RECURSIVE Decimal(_, _)
\* The number read so far, acc, followed by the digits.
Decimal(digits, acc) ==
    IF digits = <<>> THEN acc
    ELSE Decimal(Tail(digits), 10 * acc + DigitValue[Head(digits)])

\* int(text), for digits after an optional sign.
int(text) ==
    IF text[1] = "-" THEN 0 - Decimal(Tail(text), 0)
    ELSE IF text[1] = "+" THEN Decimal(Tail(text), 0)
    ELSE Decimal(text, 0)

\* re.sub(r"\s+", "", text)
StripSpace(text) == SelectSeq(text, LAMBDA c : c # " ")

\* parse_input returned None.
None == [none |-> TRUE, r |-> 0, k |-> 0, mods |-> <<>>, add |-> 0]

\* Extract throw parameters from a string.  groups is what the regex makes of
\* the string: whether it matches, and then the text of its five groups, p0
\* to p4, the empty text for an optional group that took no part.
parse_input(groups) ==
    IF ~groups.match THEN None
    ELSE LET r == int(groups.p0)
             k == int(groups.p1)
             mods == IF groups.p2 = <<"m", "e">> THEN <<"e", "m">> ELSE groups.p2
             add == IF groups.p3 = <<>> THEN 0 ELSE int(StripSpace(groups.p3))
             capped == groups.p4 = <<>>
             new == cap(r, k, add)
         IN  IF "u" \in Range(mods) /\ "m" \in Range(mods) THEN None
             ELSE IF capped /\ (new[1] # r \/ new[2] # k)
             THEN [none |-> FALSE, r |-> new[1], k |-> new[2], mods |-> mods,
                   add |-> new[3]]
             ELSE [none |-> FALSE, r |-> r, k |-> k, mods |-> mods, add |-> add]

----------------------------------------------------------------------------
(* The variables of the components that take no part in a specification. *)

NoLine == [match |-> FALSE, p0 |-> <<>>, p1 |-> <<>>, p2 |-> <<>>, p3 |-> <<>>, p4 |-> <<>>]
NoArgs == [r |-> 0, k |-> 0, mods |-> <<>>]
NoDie == [mods |-> <<>>, n |-> 0]

CapIdle == hist = <<>>
LineIdle == line = NoLine /\ opts = None
ProbIdle == min_TN = 0 /\ TNs = <<>>
ThrowIdle == args = NoArgs /\ tv = 0 /\ exact = Zero /\ atleast = Zero /\ prev = Zero
DieIdle == die = NoDie /\ dn = Zero

capVars == <<hist>>
lineVars == <<line, opts>>
probVars == <<min_TN, TNs>>
throwVars == <<args, tv, exact, atleast, prev>>
dieVars == <<die, dn>>

----------------------------------------------------------------------------
(* SpecCap: cap applied to a pool, and again to what it returned. *)

\* The largest number of rolled dice, and of kept dice, given to cap.
MaxDice == 14
\* The largest static bonus or penalty given to cap.
MaxAdd == 2
\* How often cap is applied to its own result.
MaxReapply == 2

InitCap ==
    /\ pc = "cap"
    /\ hist \in {<<t>> : t \in (0..MaxDice) \X (0..MaxDice) \X ((0 - MaxAdd)..MaxAdd)}
    /\ LineIdle /\ ProbIdle /\ ThrowIdle /\ DieIdle

\* cap is called with the pool last returned.
Normalize ==
    /\ pc = "cap"
    /\ Len(hist) <= MaxReapply
    /\ LET last == hist[Len(hist)]
       IN  hist' = Append(hist, cap(last[1], last[2], last[3]))
    /\ UNCHANGED <<pc, lineVars, probVars, throwVars, dieVars>>

NextCap == Normalize

SpecCap == InitCap /\ [][NextCap]_vars

----------------------------------------------------------------------------
(* SpecParse: parse_input on a line of input. *)

\* The largest second digit of a two-digit number of dice in a line.
MaxDigit == 4
\* The largest number of characters of the rule variant in a line.
MaxMods == 2

\* The texts of at most len characters from chars.
RECURSIVE Texts(_, _)
Texts(chars, len) ==
    IF len = 0 THEN {<<>>}
    ELSE LET shorter == Texts(chars, len - 1)
         IN  shorter \cup {Append(t, c) : t \in shorter, c \in chars}

\* One digit, or a 0 or 1 and a digit up to high.
Numbers(high) ==
    {<<c>> : c \in DOMAIN DigitValue}
    \cup {<<c, d>> : c \in {"0", "1"}, d \in {x \in DOMAIN DigitValue : DigitValue[x] <= high}}

Modifiers == {<<>>, <<"+", "4">>, <<" ", "-", " ", "3">>, <<"+", " ", "1", "0">>}

\* The lines the regex matches, by their groups, and one it does not match.
Lines(numbers) ==
    {NoLine} \cup
    [match : {TRUE}, p0 : numbers, p1 : numbers, p2 : Texts({"e", "m", "u"}, MaxMods),
     p3 : Modifiers, p4 : {<<>>, <<"b">>}]

InitParse ==
    /\ pc = "prompt"
    /\ line \in Lines(Numbers(MaxDigit))
    /\ opts = None
    /\ CapIdle /\ ProbIdle /\ ThrowIdle /\ DieIdle

\* opts = parse_input(s), as default and do_prob start.
ParseInput ==
    /\ pc = "prompt"
    /\ opts' = parse_input(line)
    /\ pc' = IF opts'.none THEN "invalid" ELSE "parsed"
    /\ UNCHANGED <<line, capVars, probVars, throwVars, dieVars>>

NextParse == ParseInput

SpecParse == InitParse /\ [][NextParse]_vars

----------------------------------------------------------------------------
(* SpecProb: the command "prob", from the line to the table of show_prob. *)

\* The largest number of dice in a line.
MaxPool == 2
\* The threshold at which the model stops following the loop of show_prob.
MaxTN == 30

\* The near-certainty bound of show_prob, 0.999.
NearCertain == Norm(999, 3)

InitProb ==
    /\ pc = "prompt"
    /\ line \in Lines({<<c>> : c \in {x \in DOMAIN DigitValue : DigitValue[x] <= MaxPool}})
    /\ opts = None
    /\ min_TN = 0 /\ TNs = <<>>
    /\ CapIdle /\ ThrowIdle /\ DieIdle

\* do_prob: parse the line; show_prob starts at min_TN = 5 - mod, or the line
\* is reported invalid.
DoProb ==
    /\ pc = "prompt"
    /\ opts' = parse_input(line)
    /\ IF opts'.none
       THEN pc' = "invalid" /\ UNCHANGED min_TN
       ELSE pc' = "probe" /\ min_TN' = 5 - opts'.add
    /\ UNCHANGED <<line, TNs, capVars, throwVars, dieVars>>

\* show_prob's survival probability of the threshold being probed.
Probed == throw_v_or_up(opts.r, opts.k, min_TN, opts.mods)

\* The loop condition raises: the exception leaves show_prob and the command
\* loop, and the program ends.
ProbeRaises ==
    /\ pc = "probe"
    /\ Raised(Probed)
    /\ pc' = Probed.exc
    /\ UNCHANGED <<min_TN, TNs, lineVars, capVars, throwVars, dieVars>>

\* while throw_v_or_up(r, k, min_TN, kind) > 0.999: min_TN += 5
ProbeNext ==
    /\ pc = "probe"
    /\ min_TN < MaxTN
    /\ ~Raised(Probed) /\ Gt(Probed, NearCertain)
    /\ min_TN' = min_TN + 5
    /\ UNCHANGED <<pc, TNs, lineVars, capVars, throwVars, dieVars>>

\* The loop ends: TNs = [min_TN + i * 5 for i in range(14)].  The 14
\* probabilities of the table reach past 10^-9, beyond the integers of the
\* model checker, and are not part of the model.
Tabulate ==
    /\ pc = "probe"
    /\ ~Raised(Probed) /\ ~Gt(Probed, NearCertain)
    /\ TNs' = [i \in 1..14 |-> min_TN + (i - 1) * 5]
    /\ pc' = "tabulated"
    /\ UNCHANGED <<min_TN, lineVars, capVars, throwVars, dieVars>>

NextProb == DoProb \/ ProbeRaises \/ ProbeNext \/ Tabulate

SpecProb == InitProb /\ [][NextProb]_vars

----------------------------------------------------------------------------
(* SpecDie: the per-die distribution of a rule variant, asked about a total. *)

\* The largest total asked about (21 is a chain of three dice).
MaxN == 21
\* The smallest total asked about.
MinN == 0 - 2

InitDie ==
    /\ pc = "ask"
    /\ die \in [mods : DOMAIN pdf, n : MinN..MaxN]
    /\ dn = Zero
    /\ CapIdle /\ LineIdle /\ ProbIdle /\ ThrowIdle

\* D(n) for the per-die distribution D of the variant, as P calls it.
AskDie ==
    /\ pc = "ask"
    /\ dn' = Call(pdf[die.mods], die.n)
    /\ pc' = "asked"
    /\ UNCHANGED <<die, capVars, lineVars, probVars, throwVars>>

NextDie == AskDie

SpecDie == InitDie /\ [][NextDie]_vars

----------------------------------------------------------------------------
(* SpecThrow: the distribution API, asked about one throw at rising values. *)

\* The smallest value asked about.
MinV == 0 - 1

\* The decimal places of D(n) for n <= v: one for each die of the longest
\* chain, and one more for the reroll of emphasis.
Places(mods, v) ==
    (IF "e" \in Range(mods) THEN 1 ELSE 0)
    + 1 + (IF "m" \in Range(mods) THEN MaxOf(v, 0) \div 9
           ELSE IF "u" \in Range(mods) THEN 0 ELSE MaxOf(v, 0) \div 10)

\* The throws whose probabilities have numerators below 2^31, the integers
\* of the model checker.
Fits(r, v, mods) == r * Places(mods, v) <= 9

InitThrow ==
    /\ pc = "call"
    /\ args \in {a \in [r : 0..MaxR, k : 0..(MaxR + 1), mods : DOMAIN pdf] :
                    Fits(a.r, MaxV, a.mods)}
    /\ tv = MinV
    /\ exact = Zero /\ atleast = Zero /\ prev = Zero
    /\ CapIdle /\ LineIdle /\ ProbIdle /\ DieIdle

\* The caller asks for the exact and the at-least probability of tv; an
\* exception of either call ends the run.
Evaluate ==
    /\ pc = "call"
    /\ LET e == throw_v(args.r, args.k, tv, args.mods)
           s == throw_v_or_up(args.r, args.k, tv, args.mods)
       IN  /\ exact' = e
           /\ atleast' = IF Raised(e) THEN atleast ELSE s
           /\ pc' = IF Raised(e) \/ Raised(s) THEN "raised" ELSE "returned"
    /\ prev' = atleast
    /\ UNCHANGED <<args, tv, capVars, lineVars, probVars, dieVars>>

\* The caller goes on to the next value.
Advance ==
    /\ pc = "returned"
    /\ tv < MaxV
    /\ tv' = tv + 1
    /\ pc' = "call"
    /\ UNCHANGED <<args, exact, atleast, prev, capVars, lineVars, probVars, dieVars>>

NextThrow == Evaluate \/ Advance

SpecThrow == InitThrow /\ [][NextThrow]_vars

----------------------------------------------------------------------------
(* The reference for C1: the throw's distribution by enumeration. *)

RECURSIVE KeptSum(_, _)
\* The sum of the k highest of the die totals dice.
KeptSum(dice, k) ==
    IF k = 0 \/ dice = <<>> THEN 0
    ELSE LET i == CHOOSE i \in DOMAIN dice : \A j \in DOMAIN dice : dice[j] <= dice[i]
         IN  dice[i] + KeptSum(SubSeq(dice, 1, i - 1) \o SubSeq(dice, i + 1, Len(dice)),
                               k - 1)

RECURSIVE TupleChance(_, _)
\* The chance of the tuple dice of independent die totals drawn from D.
TupleChance(D, dice) ==
    IF dice = <<>> THEN One ELSE Mul(Call(D, Head(dice)), TupleChance(D, Tail(dice)))

RECURSIVE EnumDice(_, _, _, _, _)
RECURSIVE EnumTotals(_, _, _, _, _, _, _)
\* The chance that r die totals that start with dice, each of the rest in
\* 1..v, have the kept sum v.  A total above v cannot be part: the highest
\* total is kept, and every total is at least 1.
EnumDice(r, k, v, D, dice) ==
    IF Len(dice) = r
    THEN IF KeptSum(dice, k) = v THEN TupleChance(D, dice) ELSE Zero
    ELSE EnumTotals(r, k, v, D, dice, 1, v)

\* The sum of EnumDice over the next die's totals x..last, added by halves of
\* the range.
EnumTotals(r, k, v, D, dice, x, last) ==
    IF x > last THEN Zero
    ELSE IF x = last THEN EnumDice(r, k, v, D, Append(dice, x))
    ELSE LET mid == (x + last) \div 2
         IN  Add(EnumTotals(r, k, v, D, dice, x, mid),
                 EnumTotals(r, k, v, D, dice, mid + 1, last))

\* The probability that the k highest of r independent draws from D sum to v.
Reference(r, k, v, D) == EnumDice(r, k, v, D, <<>>)

ValidPool == 1 <= args.k /\ args.k <= args.r

\* C1: for 1 <= k <= r, every v and each of the five variants, throw_v(r, k, v,
\* variant) is the probability, by enumeration of the r-tuples of die totals
\* drawn from the variant's per-die distribution, that the k highest sum to v;
\* throw_v(1, 1, n, standard) is 0.1 for n in 1..9 and 0 for n = 10, and
\* throw_v(1, 1, n, unskilled) is 0.1 for n in 1..10 and 0 otherwise.
C1_ThrowVIsKeptSumChance ==
    (pc = "returned" /\ ValidPool) =>
        /\ exact = Reference(args.r, args.k, tv, pdf[args.mods])
        /\ (args.r = 1 /\ args.mods = <<>> /\ tv \in 1..9) => exact = Tenth
        /\ (args.r = 1 /\ args.mods = <<>> /\ tv = 10) => exact = Zero
        /\ (args.r = 1 /\ args.mods = <<"u">>) =>
               exact = (IF tv \in 1..10 THEN Tenth ELSE Zero)

\* A throw of 3 keep 2 with emphasis and mastery reaches the exploded total 11.
C1_Witness ==
    /\ pc = "returned" /\ args.r = 3 /\ args.k = 2 /\ args.mods = <<"e", "m">>
    /\ tv = 11 /\ exact # Zero

\* C2: throw_v(r, k, v, variant) with k > r, or r < 1, or k < 1 returns 0 and
\* does not raise.
C2_InvalidPoolGivesZero ==
    (pc \in {"returned", "raised"} /\ ~ValidPool) => exact = Zero

\* C6: for 1 <= k <= r the survival function does not increase:
\* throw_v_or_up(r, k, v + 1, variant) <= throw_v_or_up(r, k, v, variant).
C6_SurvivalNonIncreasing ==
    (pc = "returned" /\ ValidPool /\ tv > MinV) => Le(atleast, prev)

\* The survival function of 3 keep 2 drops strictly from 4 to 5.
C6_Witness ==
    /\ pc = "returned" /\ args.r = 3 /\ args.k = 2 /\ tv = 5
    /\ Gt(prev, atleast)

----------------------------------------------------------------------------
(* Pool normalisation and parsing: C3, C4, C5, C7. *)

\* The pool given to cap, and what cap returned for it.
Given == hist[1]
Capped == hist[2]
PositivePool == Given[1] >= 1 /\ Given[2] >= 1

\* C3, as the specification states it: cap(12, 3, 0) = (10, 4, 2).
C3_AsStated ==
    (Len(hist) >= 2 /\ Given = <<12, 3, 0>>) => Capped = <<10, 4, 2>>

\* C3, amended: cap(12, 3, 0) = (10, 4, 0); two rolled dice become one kept
\* die and no bonus.
C3_CapOf12k3 ==
    (Len(hist) >= 2 /\ Given = <<12, 3, 0>>) => Capped = <<10, 4, 0>>

\* cap has been applied to (12, 3, 0).
C3_Witness == Len(hist) >= 2 /\ Given = <<12, 3, 0>>

\* C4: for every line that parse_input accepts as a capped roll (no b), the
\* returned r and k have 1 <= k <= r <= 10.
C4_ParsedPoolIsNormal ==
    (pc = "parsed" /\ line.p4 = <<>>) =>
        (1 <= opts.k /\ opts.k <= opts.r /\ opts.r <= 10)

\* C5: for r >= 1, k >= 1 and every add, cap applied to cap(r, k, add) returns
\* it unchanged, the bonus included.
C5_CapIdempotent ==
    (Len(hist) >= 2 /\ PositivePool) =>
        \A i \in 2..(Len(hist) - 1) : hist[i + 1] = hist[i]

\* cap changed 13 rolled, 11 kept and was applied to its result.
C5_Witness ==
    /\ Len(hist) = 3 /\ Given[1] = 13 /\ Given[2] = 11
    /\ Capped # Given /\ hist[3] = Capped

\* C7: for r >= 1, k >= 1, when cap returns a bonus other than the add it was
\* given, the kept count it returns is 10.
C7_BonusOnlyAtTenKept ==
    (Len(hist) >= 2 /\ PositivePool /\ Capped[3] # Given[3]) => Capped[2] = 10

----------------------------------------------------------------------------
(* The command prob: C8, C10. *)

\* C8: for every rule variant that parse_input returns, throw_v finds a
\* per-die distribution and returns a probability; the lookup does not fail.
C8_VariantLookupTotal ==
    /\ pc # "KeyError"
    /\ (pc \in {"probe", "tabulated"}) =>
           (opts.mods \in DOMAIN pdf /\ ~Raised(throw_v(1, 1, 1, opts.mods)))

\* C10: for every throw that parse_input returns, the loop of show_prob goes
\* on in steps of 5 from 5 - mod until the survival probability of min_TN is
\* not above 0.999, and then 14 thresholds 5 apart are tabulated: show_prob
\* leaves its loop only into the table, which starts at the min_TN that ended
\* the loop.
C10_ProbingEndsInTable ==
    (pc \notin {"prompt", "invalid"}) =>
        \/ pc = "probe" /\ (min_TN - (5 - opts.add)) % 5 = 0
        \/ /\ pc = "tabulated"
           /\ ~Gt(Probed, NearCertain)
           /\ Len(TNs) = 14
           /\ TNs[1] = min_TN
           /\ \A i \in 1..13 : TNs[i + 1] = TNs[i] + 5

\* What keeps show_prob in its loop for a pool with no rolled or no kept
\* dice: the survival probability is 1 at every threshold.
EmptyPoolProbesOne ==
    (pc = "probe" /\ (opts.r < 1 \/ opts.k < 1) /\ opts.mods \in DOMAIN pdf) =>
        Probed = One

\* A pool with 1 <= k <= r and a variant of pdf leaves the loop for the table
\* below MaxTN: the bound of the model stops no loop that the program ends.
NormalPoolTabulates ==
    (pc = "probe" /\ 1 <= opts.k /\ opts.k <= opts.r /\ opts.mods \in DOMAIN pdf) =>
        /\ ~Raised(Probed)
        /\ Gt(Probed, NearCertain) => min_TN < MaxTN

----------------------------------------------------------------------------
(* The per-die distributions against the simulator: C9. *)

\* C9: for each of the five variants and every n, the analytic D(n) is the
\* chance that roll(mods) returns n with d10() uniform on 1..10; so D(n) = 0
\* for n < 1 and for totals no chain produces, and emphasis(1, D) = 0.01.
C9_DistributionIsRollChance ==
    (pc = "asked") =>
        /\ dn = roll(die.mods, die.n)
        /\ die.n < 1 => dn = Zero
        /\ (die.mods = <<>> /\ die.n % 10 = 0) => dn = Zero
        /\ (die.mods = <<"u">> /\ die.n > 10) => dn = Zero
        /\ (die.mods = <<"m">> /\ die.n = 9) => dn = Zero
        /\ ("e" \in Range(die.mods) /\ die.n = 1) => dn = Norm(1, 2)

\* The total 19 of a roll with emphasis and mastery, a chain of two or three
\* dice, has been asked about.
C9_Witness ==
    /\ pc = "asked" /\ die.mods = <<"e", "m">> /\ die.n = 19
    /\ dn # Zero /\ dn = roll(die.mods, die.n)

============================================================================
